---- MODULE Spec2Model ----
(***************************************************************************)
(* Model of videomamba/video_sm/engines/engine_for_finetuning_regression.py *)
(*                                                                         *)
(*   train_one_epoch : the per-batch loop (schedule gating, the three      *)
(*                     gradient-update paths, statistics, logging sink)    *)
(*   final_test      : the formatting of one result record                 *)
(*   merge           : reading the worker files, deduplication, the pool   *)
(*                     of compute_video units and the final reduction      *)
(*                                                                         *)
(* Numbers with one decimal digit (predictions, labels) are integers in    *)
(* tenths: 0.9 is 9, 1.0 is 10.  Scores are exact rationals <<num, den>>   *)
(* in lowest terms; floating-point rounding is not modelled.  Texts are    *)
(* sequences of one-character strings, so that Python's string `+` is \o.  *)
(***************************************************************************)
EXTENDS Integers, Sequences, FiniteSets, TLC

VARIABLES
    \* ---- train_one_epoch ----
    cfg,             \* the arguments of the call (see TrainConfigs)
    tpc,             \* "loop" while the for statement runs, "done" after it, "idle" when not called
    data_iter_step,  \* index of the batch most recently taken from enumerate(), -1 before the first
    param_groups,    \* optimizer.param_groups
    calls,           \* number of invocations of each collaborator method
    grads,           \* micro-batches accumulated in .grad since the last optimizer.zero_grad()
    meters,          \* metric_logger: number of update rounds and the latest lr / min_lr / weight_decay
    log_step,        \* log_writer's step counter
    written,         \* which of lr / weight_decay the latest batch assigned in some parameter group
    worked,          \* indices of the batches whose loop body ran past the `continue`
    \* ---- merge ----
    mpc,             \* "read", "computing", "pool", "done", "ValueError", "idle"
    files,           \* files[x+1] is the list of lines of <eval_path>/x.txt, each line its token list
    num_tasks,       \* argument of merge
    x,               \* the outer loop variable; -1 before the first file is opened
    lines,           \* the lines of file x not yet iterated
    lineno,          \* index in files[x+1] of the line most recently iterated
    dict_keys,       \* insertion order of dict_feats
    dict_feats, dict_label, dict_pos,
    origin,          \* history: origin[name][j] is the <<x, lineno>> that appended dict_feats[name][j]
    input_lst,       \* the list handed to Pool.map
    ans,             \* result slots of Pool.map, "pending" until the unit completes
    final_loss,      \* the value merge returns
    run,             \* 1 in the first call of merge, 2 in the call over the files read twice
    first_loss       \* the value the first call returned

trainVars == <<cfg, tpc, data_iter_step, param_groups, calls, grads, meters, log_step,
               written, worked>>
mergeVars == <<mpc, files, num_tasks, x, lines, lineno, dict_keys, dict_feats, dict_label,
               dict_pos, origin, input_lst, ans, final_loss, run, first_loss>>
vars == <<trainVars, mergeVars>>

Range(s) == {s[i] : i \in DOMAIN s}

(***************************************************************************)
(*                           train_one_epoch                               *)
(***************************************************************************)

\* Bounds of the training model.
MaxUpdateFreq == 2
MaxSteps == 2
MaxStartSteps == 1
\* The data source holds up to one accumulation window more than the epoch uses.
MaxBatches == (MaxSteps * MaxUpdateFreq) + MaxUpdateFreq

\* The schedule tables: one entry per global iteration, all distinct.
lr_schedule_values == [it \in 0..(MaxStartSteps + MaxSteps) |-> 100 + (10 * it)]
wd_schedule_values == [it \in 0..(MaxStartSteps + MaxSteps) |-> 50 + it]

\* loss_scaler is None (the model wrapper owns the optimizer), a scaler object, or 'none'.
LossScalers == {"None", "scaler", "none"}

TrainConfigs ==
    [loss_scaler : LossScalers,
     lr_schedule : BOOLEAN,          \* lr_schedule_values is not None
     wd_schedule : BOOLEAN,          \* wd_schedule_values is not None
     model_ema : BOOLEAN,            \* model_ema is not None
     log_writer : BOOLEAN,           \* log_writer is not None
     update_freq : 1..MaxUpdateFreq,
     num_training_steps_per_epoch : 1..MaxSteps,
     start_steps : 0..MaxStartSteps,
     num_batches : 0..MaxBatches]

\* Three parameter groups: with and without "lr_scale", with and without weight decay.
InitParamGroups ==
    << [lr |-> 1, weight_decay |-> 5],
       [lr |-> 1, weight_decay |-> 0, lr_scale |-> 2],
       [lr |-> 1, weight_decay |-> 5, lr_scale |-> 3] >>

NoCalls ==
    [model_backward |-> 0, model_step |-> 0, loss_backward |-> 0, scaler |-> 0,
     scaler_update_grad |-> 0, clip_grad_norm |-> 0, optimizer_step |-> 0,
     optimizer_zero_grad |-> 0, model_zero_grad |-> 0, ema_update |-> 0]

Bump(c, field) == [c EXCEPT ![field] = @ + 1]

\* line 47
StepOf(b) == b \div cfg.update_freq

\* line 48: the batch is skipped
BeyondEpoch_off_by_one(b) == StepOf(b) > cfg.num_training_steps_per_epoch
BeyondEpoch(b) == StepOf(b) >= cfg.num_training_steps_per_epoch

\* line 50
GlobalIt_local_step(b) == StepOf(b)
GlobalIt(b) == cfg.start_steps + StepOf(b)

\* line 52: Python parses `A or B and C` as `A or (B and C)`
ScheduleGate(b) ==
    cfg.lr_schedule \/ (cfg.wd_schedule /\ b % cfg.update_freq = 0)

\* lines 54-60, one parameter group
ScheduledGroup(g, it) ==
    LET g1 == IF cfg.lr_schedule
              THEN IF "lr_scale" \in DOMAIN g
                   THEN [g EXCEPT !.lr = lr_schedule_values[it] * g.lr_scale]
                   ELSE [g EXCEPT !.lr = lr_schedule_values[it]]
              ELSE g
    IN IF cfg.wd_schedule /\ g1.weight_decay > 0
       THEN [g1 EXCEPT !.weight_decay = wd_schedule_values[it]]
       ELSE g1

\* lines 52-60
ScheduledGroups(groups, b) ==
    IF ScheduleGate(b)
    THEN [i \in DOMAIN groups |-> ScheduledGroup(groups[i], GlobalIt(b))]
    ELSE groups

\* which keys lines 56, 58 and 60 assign on batch b
WrittenBy(groups, b) ==
    [lr |-> ScheduleGate(b) /\ cfg.lr_schedule /\ groups # <<>>,
     weight_decay |-> ScheduleGate(b) /\ cfg.wd_schedule
                      /\ \E i \in DOMAIN groups : groups[i].weight_decay > 0]

\* lines 93, 107, 108, 116: the batch closes an accumulation window
WindowEnd_every_batch(b) == TRUE
WindowEnd(b) == (b + 1) % cfg.update_freq = 0

Min(a, b) == IF a < b THEN a ELSE b
Max(a, b) == IF a > b THEN a ELSE b

\* lines 129-133; learning rates are integers in units of 1e-4, so 10. is 100000
RECURSIVE MinLr(_, _)
MinLr(groups, acc) ==
    IF groups = <<>> THEN acc ELSE MinLr(Tail(groups), Min(acc, Head(groups).lr))
RECURSIVE MaxLr(_, _)
MaxLr(groups, acc) ==
    IF groups = <<>> THEN acc ELSE MaxLr(Tail(groups), Max(acc, Head(groups).lr))

\* lines 137-140: the last group with weight_decay > 0 wins
RECURSIVE WeightDecayValue(_, _)
WeightDecayValue(groups, acc) ==
    IF groups = <<>> THEN acc
    ELSE WeightDecayValue(Tail(groups),
                          IF Head(groups).weight_decay > 0 THEN Head(groups).weight_decay
                          ELSE acc)

\* lines 127-142
UpdatedMeters(groups) ==
    [updates |-> meters.updates + 1,
     lr |-> MaxLr(groups, 0),
     min_lr |-> MinLr(groups, 100000),
     weight_decay |-> WeightDecayValue(groups, "None")]

\* lines 33-44: the state when the for statement starts
TrainInit ==
    /\ cfg \in TrainConfigs
    /\ tpc = "loop"
    /\ data_iter_step = -1
    /\ param_groups = InitParamGroups
    /\ calls = IF cfg.loss_scaler = "None" THEN Bump(NoCalls, "model_zero_grad")
               ELSE Bump(NoCalls, "optimizer_zero_grad")
    /\ grads = 0
    /\ meters = [updates |-> 0, lr |-> "None", min_lr |-> "None", weight_decay |-> "None"]
    /\ log_step = 0
    /\ written = [lr |-> FALSE, weight_decay |-> FALSE]
    /\ worked = {}

TrainIdle ==
    /\ cfg = "None" /\ tpc = "idle" /\ data_iter_step = -1 /\ param_groups = <<>>
    /\ calls = NoCalls /\ grads = 0 /\ meters = "None" /\ log_step = 0
    /\ written = "None" /\ worked = {}

HasNextBatch == tpc = "loop" /\ data_iter_step + 1 < cfg.num_batches

\* lines 125-152, common to the three paths
Bookkeeping(b) ==
    /\ data_iter_step' = b
    /\ param_groups' = ScheduledGroups(param_groups, b)
    /\ written' = WrittenBy(param_groups, b)
    /\ meters' = UpdatedMeters(param_groups')
    /\ log_step' = IF cfg.log_writer THEN log_step + 1 ELSE log_step
    /\ worked' = worked \cup {b}
    /\ UNCHANGED <<cfg, tpc>>

\* lines 46-49: a batch past the epoch's steps
SkipBatch ==
    /\ HasNextBatch
    /\ BeyondEpoch(data_iter_step + 1)
    /\ data_iter_step' = data_iter_step + 1
    /\ written' = [lr |-> FALSE, weight_decay |-> FALSE]
    /\ UNCHANGED <<cfg, tpc, param_groups, calls, grads, meters, log_step, worked>>
    /\ UNCHANGED mergeVars

EmaUpdated(c, b) ==
    IF WindowEnd(b) /\ cfg.model_ema THEN Bump(c, "ema_update") ELSE c

\* lines 46-99 and 125-152, loss_scaler is None
TrainBatchDeepspeed ==
    LET b == data_iter_step + 1 IN
    /\ HasNextBatch
    /\ ~BeyondEpoch(b)
    /\ cfg.loss_scaler = "None"
    /\ Bookkeeping(b)
    /\ calls' = EmaUpdated(Bump(Bump(calls, "model_backward"), "model_step"), b)
    /\ UNCHANGED grads          \* the wrapper owns the gradients
    /\ UNCHANGED mergeVars

\* lines 46-63, 70-75, 101-112 and 125-152, loss_scaler is a scaler object
TrainBatchScaler ==
    LET b == data_iter_step + 1
        c1 == Bump(calls, "scaler")
        c2 == IF WindowEnd(b)
              THEN Bump(Bump(c1, "scaler_update_grad"), "optimizer_zero_grad")
              ELSE c1
    IN
    /\ HasNextBatch
    /\ ~BeyondEpoch(b)
    /\ cfg.loss_scaler = "scaler"
    /\ Bookkeeping(b)
    /\ calls' = EmaUpdated(c2, b)
    /\ grads' = IF WindowEnd(b) THEN 0 ELSE grads + 1
    /\ UNCHANGED mergeVars

\* lines 46-63, 70-75, 113-123 and 125-152, loss_scaler == 'none'
TrainBatchPlain ==
    LET b == data_iter_step + 1
        c1 == Bump(calls, "loss_backward")
        c2 == IF WindowEnd(b)
              THEN Bump(Bump(Bump(c1, "clip_grad_norm"), "optimizer_step"),
                        "optimizer_zero_grad")
              ELSE c1
    IN
    /\ HasNextBatch
    /\ ~BeyondEpoch(b)
    /\ cfg.loss_scaler = "none"
    /\ Bookkeeping(b)
    /\ calls' = EmaUpdated(c2, b)
    /\ grads' = IF WindowEnd(b) THEN 0 ELSE grads + 1
    /\ UNCHANGED mergeVars

\* lines 154-157: the data source is exhausted
EpochEnd ==
    /\ tpc = "loop"
    /\ data_iter_step + 1 = cfg.num_batches
    /\ tpc' = "done"
    /\ UNCHANGED <<cfg, data_iter_step, param_groups, calls, grads, meters, log_step,
                   written, worked>>
    /\ UNCHANGED mergeVars

(***************************************************************************)
(*                      final_test: one result record                      *)
(***************************************************************************)

Digit == <<"0", "1", "2", "3", "4", "5", "6", "7", "8", "9">>

\* str(int(n)), n >= 0
RECURSIVE IntStr(_)
IntStr(n) ==
    IF n < 10 THEN <<Digit[n + 1]>> ELSE IntStr(n \div 10) \o <<Digit[(n % 10) + 1]>>

\* str(float(v / 10)) for a value with one decimal digit, given in tenths: 10 gives "1.0"
FloatStr(v) == IntStr(v \div 10) \o <<".">> \o IntStr(v % 10)

\* line 228: output is model(videos)[:, 0], so output.data[i] is a 0-d tensor and str() of
\* its 0-d numpy array prints the bare scalar: 9 (tenths) gives "0.9"
NumpyScalarStr(v) == FloatStr(v)

\* the textual form of a one-element array: 9 (tenths) gives "[0.9]"
NumpyArrayStr(v) == <<"[">> \o FloatStr(v) \o <<"]">>

\* lines 227-231: the tokens of "{} {} {} {} {}\n".format(...)
FormatRecord(s) ==
    <<s.id, NumpyScalarStr(s.output), FloatStr(s.target), IntStr(s.chunk_nb),
      IntStr(s.split_nb)>>

\* the record of the documented file format, with the prediction in array textual form
DocumentedRecord(s) ==
    <<s.id, NumpyArrayStr(s.output), FloatStr(s.target), IntStr(s.chunk_nb),
      IntStr(s.split_nb)>>

\* a record in format "scalar", as final_test writes it, or in format "array"
RecordIn(fmt, s) == IF fmt = "array" THEN DocumentedRecord(s) ELSE FormatRecord(s)

\* line 239: the header line, the last batch's loss (0.5)
HeaderLine == <<FloatStr(5)>>

(***************************************************************************)
(*                                 merge                                   *)
(***************************************************************************)

\* Bounds of the merge model: records over all worker files, and worker files.
MaxRecords == 4
MaxTasks == 2

\* The evaluated samples: outputs and targets in tenths.  sample1 is evaluated at
\* (chunk, split) = (0,0) and (0,1), and once more at (0,0) with another output and
\* label; sampleA at (1,12) and (11,2).
Samples ==
    { [id |-> "sample1", output |-> 9, target |-> 10, chunk_nb |-> 0, split_nb |-> 0],
      [id |-> "sample1", output |-> 7, target |-> 10, chunk_nb |-> 0, split_nb |-> 1],
      [id |-> "sample1", output |-> 7, target |-> 5, chunk_nb |-> 0, split_nb |-> 0],
      [id |-> "sampleA", output |-> 9, target |-> 10, chunk_nb |-> 1, split_nb |-> 12],
      [id |-> "sampleA", output |-> 7, target |-> 5, chunk_nb |-> 11, split_nb |-> 2] }

\* ---- exact rationals <<numerator, denominator>>, denominator > 0, lowest terms ----
Abs(n) == IF n < 0 THEN -n ELSE n
RECURSIVE GCD(_, _)
GCD(a, b) == IF b = 0 THEN a ELSE GCD(b, a % b)
Rat(n, d) == LET g == GCD(Abs(n), d) IN <<n \div g, d \div g>>
RatAdd(a, b) == Rat((a[1] * b[2]) + (b[1] * a[2]), a[2] * b[2])
RatSub(a, b) == Rat((a[1] * b[2]) - (b[1] * a[2]), a[2] * b[2])
RatMul(a, b) == Rat(a[1] * b[1], a[2] * b[2])
RECURSIVE RatSum(_)
RatSum(s) == IF s = <<>> THEN <<0, 1>> ELSE RatAdd(Head(s), RatSum(Tail(s)))

\* Values that are not numbers are one-element tuples, as numbers are two-element ones.
NaN == <<"nan">>
ValueError == <<"ValueError">>
None == <<"None">>
Pending == <<"pending">>

\* np.mean of a list: nan for the empty list and for a list holding nan
NpMean(s) ==
    IF s = <<>> \/ NaN \in Range(s) THEN NaN
    ELSE RatMul(RatSum(s), <<1, Len(s)>>)

\* np.sum of a list
NpSum(s) == IF NaN \in Range(s) THEN NaN ELSE RatSum(s)

\* ---- float(text), line 261 and 262 ----
DigitVal(c) == CHOOSE d \in 0..9 : Digit[d + 1] = c
RECURSIVE DigitsVal(_, _)
DigitsVal(t, acc) ==
    IF t = <<>> THEN acc ELSE DigitsVal(Tail(t), (10 * acc) + DigitVal(Head(t)))
RECURSIVE Pow10(_)
Pow10(k) == IF k = 0 THEN 1 ELSE 10 * Pow10(k - 1)
DotsOf(t) == {i \in DOMAIN t : t[i] = "."}
\* digits with at most one point and at least one digit; signs and exponents, which
\* float() also accepts, do not occur in the texts of the model
IsDecimalText(t) ==
    /\ \A i \in DOMAIN t : t[i] = "." \/ t[i] \in Range(Digit)
    /\ Cardinality(DotsOf(t)) <= 1
    /\ Len(t) > Cardinality(DotsOf(t))
PyFloat(t) ==
    IF ~IsDecimalText(t) THEN ValueError
    ELSE IF DotsOf(t) = {} THEN <<DigitsVal(t, 0), 1>>
    ELSE LET dot == CHOOSE i \in DotsOf(t) : TRUE
             intp == SubSeq(t, 1, dot - 1)
             frac == SubSeq(t, dot + 1, Len(t))
         IN Rat(DigitsVal(intp \o frac, 0), Pow10(Len(frac)))

\* ---- dictionaries: a function over the keys, dict_keys keeps the insertion order ----
EmptyDict == [n \in {} |-> <<>>]
Put(d, k, v) == [n \in (DOMAIN d) \cup {k} |-> IF n = k THEN v ELSE d[n]]

\* lines 269 and 272: Python's `+` on the two index texts
PosKey(chunk_nb, split_nb) == chunk_nb \o split_nb

\* line 269: `in dict_pos[name]`
AlreadySeen_never(pos, key) == FALSE
AlreadySeen(pos, key) == key \in Range(pos)

\* line 272
RecordKey_last_only(pos, key) == <<key>>
RecordKey(pos, key) == Append(pos, key)

\* lines 269-270: `continue` comes before line 273, the label stays
SkippedLabel_last_seen(old, label) == label
SkippedLabel(old, label) == old

\* lines 259-273 on one line of a file; `at` is where the line stands, `raised` tells
\* that float() raised ValueError
Absorb(d, line, at) ==
    LET name == line[1]
        data == PyFloat(line[2])
        label == PyFloat(line[3])
        key == PosKey(line[4], line[5])
        fresh == name \notin DOMAIN d.feats
        keys0 == IF fresh THEN Append(d.keys, name) ELSE d.keys
        feats0 == IF fresh THEN Put(d.feats, name, <<>>) ELSE d.feats
        label0 == IF fresh THEN Put(d.label, name, <<0, 1>>) ELSE d.label
        pos0 == IF fresh THEN Put(d.pos, name, <<>>) ELSE d.pos
        origin0 == IF fresh THEN Put(d.origin, name, <<>>) ELSE d.origin
    IN IF data = ValueError \/ label = ValueError
       THEN [d EXCEPT !.raised = TRUE]
       ELSE IF AlreadySeen(pos0[name], key)
       THEN [keys |-> keys0, feats |-> feats0, pos |-> pos0, origin |-> origin0,
             raised |-> FALSE,
             label |-> [label0 EXCEPT ![name] = SkippedLabel(@, label)]]
       ELSE [keys |-> keys0,
             raised |-> FALSE,
             feats |-> [feats0 EXCEPT ![name] = Append(@, data)],
             pos |-> [pos0 EXCEPT ![name] = RecordKey(@, key)],
             origin |-> [origin0 EXCEPT ![name] = Append(@, at)],
             label |-> [label0 EXCEPT ![name] = label]]

NoDicts ==
    [keys |-> <<>>, feats |-> EmptyDict, label |-> EmptyDict, pos |-> EmptyDict,
     origin |-> EmptyDict, raised |-> FALSE]

Dicts ==
    [keys |-> dict_keys, feats |-> dict_feats, label |-> dict_label, pos |-> dict_pos,
     origin |-> origin, raised |-> FALSE]

\* lines 287-292
compute_video_sum(lst) ==
    LET feat == NpSum(lst[3])
    IN IF feat = NaN THEN <<NaN>>
       ELSE LET diff == RatSub(feat, lst[4]) IN <<RatMul(diff, diff)>>
compute_video_shared(lst) ==
    LET finished == Cardinality({i \in DOMAIN ans : ans[i] # Pending})
        feat == NpMean(lst[3])
    IN IF feat = NaN THEN <<NaN>>
       ELSE LET diff == RatSub(feat, RatAdd(lst[4], <<finished, 1>>))
            IN <<RatMul(diff, diff)>>
compute_video(lst) ==
    LET feat == NpMean(lst[3])
    IN IF feat = NaN THEN <<NaN>>
       ELSE LET diff == RatSub(feat, lst[4]) IN <<RatMul(diff, diff)>>

\* the worker files: the evaluated samples `flat` dealt to the nt workers in contiguous
\* shares, each worker writing its header and then one record per sample (lines 238-241)
SeqsUpTo(S, n) == UNION {[1..k -> S] : k \in 0..n}
FilesOf(flat, nt, fmt) ==
    [k \in 1..nt |->
        LET lo == ((k - 1) * Len(flat)) \div nt
            hi == (k * Len(flat)) \div nt
        IN <<HeaderLine>> \o [i \in 1..(hi - lo) |-> RecordIn(fmt, flat[lo + i])]]

\* line 249-252: merge is called on the files final_test wrote (format "scalar"), or
\* on files in the documented format (format "array")
MergeStart(formats) ==
    /\ mpc = "read"
    /\ num_tasks \in 1..MaxTasks
    /\ \E flat \in SeqsUpTo(Samples, MaxRecords), fmt \in formats :
            files = FilesOf(flat, num_tasks, fmt)
    /\ x = -1 /\ lines = <<>> /\ lineno = 0
    /\ dict_keys = <<>> /\ dict_feats = EmptyDict /\ dict_label = EmptyDict
    /\ dict_pos = EmptyDict /\ origin = EmptyDict
    /\ input_lst = <<>> /\ ans = <<>> /\ final_loss = None
    /\ run = 1 /\ first_loss = None

\* lines 255-257: the next worker file is opened and its header dropped
OpenFile ==
    /\ mpc = "read" /\ lines = <<>> /\ x + 1 < num_tasks
    /\ x' = x + 1
    /\ lines' = SubSeq(files[x + 2], 2, Len(files[x + 2]))
    /\ lineno' = 1
    /\ UNCHANGED <<mpc, files, num_tasks, dict_keys, dict_feats, dict_label, dict_pos,
                   origin, input_lst, ans, final_loss, run, first_loss>>
    /\ UNCHANGED trainVars

\* lines 258-273: one iteration of the inner loop
ReadLine ==
    /\ mpc = "read" /\ lines # <<>>
    /\ LET d == Absorb(Dicts, Head(lines), <<x, lineno + 1>>) IN
       IF d.raised
       THEN /\ mpc' = "ValueError"
            /\ UNCHANGED <<lines, lineno, dict_keys, dict_feats, dict_label, dict_pos,
                           origin>>
       ELSE /\ lines' = Tail(lines)
            /\ lineno' = lineno + 1
            /\ dict_keys' = d.keys
            /\ dict_feats' = d.feats
            /\ dict_label' = d.label
            /\ dict_pos' = d.pos
            /\ origin' = d.origin
            /\ UNCHANGED mpc
    /\ UNCHANGED <<files, num_tasks, x, input_lst, ans, final_loss, run, first_loss>>
    /\ UNCHANGED trainVars

\* lines 276-279
InputList(d) ==
    [i \in 1..Len(d.keys) |->
        <<i - 1, d.keys[i], d.feats[d.keys[i]], d.label[d.keys[i]]>>]

\* lines 274-282: all files are read, the units are handed to the pool
SubmitPool ==
    /\ mpc = "read" /\ lines = <<>> /\ x + 1 = num_tasks
    /\ input_lst' = InputList(Dicts)
    /\ ans' = [i \in 1..Len(dict_keys) |-> Pending]
    /\ mpc' = "pool"
    /\ UNCHANGED <<files, num_tasks, x, lines, lineno, dict_keys, dict_feats, dict_label,
                   dict_pos, origin, final_loss, run, first_loss>>
    /\ UNCHANGED trainVars

\* line 282: a pool worker completes unit i; Pool.map keeps one result slot per input
ComputeUnit(i) ==
    /\ mpc = "pool" /\ ans[i] = Pending
    /\ ans' = [ans EXCEPT ![i] = compute_video(input_lst[i])]
    /\ UNCHANGED <<mpc, files, num_tasks, x, lines, lineno, dict_keys, dict_feats,
                   dict_label, dict_pos, origin, input_lst, final_loss, run, first_loss>>
    /\ UNCHANGED trainVars

\* lines 283-285
FinalLoss(results) == NpMean([i \in DOMAIN results |-> results[i][1]])

\* lines 282-285: Pool.map returns when every unit is complete
Reduce ==
    /\ mpc = "pool" /\ \A i \in DOMAIN ans : ans[i] # Pending
    /\ final_loss' = FinalLoss(ans)
    /\ mpc' = "done"
    /\ UNCHANGED <<files, num_tasks, x, lines, lineno, dict_keys, dict_feats, dict_label,
                   dict_pos, origin, input_lst, ans, run, first_loss>>
    /\ UNCHANGED trainVars

\* a second call of merge, over the same files followed by a second copy of them
MergeAgainDoubled ==
    /\ mpc = "done" /\ run = 1
    /\ run' = 2
    /\ first_loss' = final_loss
    /\ files' = files \o files
    /\ num_tasks' = 2 * num_tasks
    /\ mpc' = "read"
    /\ x' = -1 /\ lines' = <<>> /\ lineno' = 0
    /\ dict_keys' = <<>> /\ dict_feats' = EmptyDict /\ dict_label' = EmptyDict
    /\ dict_pos' = EmptyDict /\ origin' = EmptyDict
    /\ input_lst' = <<>> /\ ans' = <<>> /\ final_loss' = None
    /\ UNCHANGED trainVars

MergeIdle ==
    /\ mpc = "idle" /\ files = <<>> /\ num_tasks = 0 /\ x = -1 /\ lines = <<>> /\ lineno = 0
    /\ dict_keys = <<>> /\ dict_feats = <<>> /\ dict_label = <<>> /\ dict_pos = <<>>
    /\ origin = <<>> /\ input_lst = <<>> /\ ans = <<>> /\ final_loss = None
    /\ run = 1 /\ first_loss = None

Init == TrainInit /\ MergeIdle

Next ==
    \/ SkipBatch
    \/ TrainBatchDeepspeed
    \/ TrainBatchScaler
    \/ TrainBatchPlain
    \/ EpochEnd

Spec == Init /\ [][Next]_vars

\* merge, called once
MergeInit == TrainIdle /\ MergeStart({"scalar", "array"})
MergeNext ==
    \/ OpenFile
    \/ ReadLine
    \/ SubmitPool
    \/ \E i \in DOMAIN ans : ComputeUnit(i)
    \/ Reduce
MergeSpec == MergeInit /\ [][MergeNext]_vars

\* merge, called on the files final_test wrote and then on the files read twice
MergeTwiceInit == TrainIdle /\ MergeStart({"scalar"})
MergeTwiceNext ==
    \/ OpenFile
    \/ ReadLine
    \/ SubmitPool
    \/ \E i \in DOMAIN ans : ComputeUnit(i)
    \/ Reduce
    \/ MergeAgainDoubled
MergeTwiceSpec == MergeTwiceInit /\ [][MergeTwiceNext]_vars


(***************************************************************************)
(*                     Properties of train_one_epoch                       *)
(***************************************************************************)

EpochOverExactData ==
    /\ tpc = "done"
    /\ cfg.num_batches = cfg.num_training_steps_per_epoch * cfg.update_freq

\* C1 (as stated): over a data source of N*U batches the number of optimizer-step
\* invocations is N both for model.step() when loss_scaler is None and for
\* optimizer.step() when loss_scaler == 'none'.
C1_StepsPerWindow_AsClaimed ==
    EpochOverExactData =>
        /\ cfg.loss_scaler = "None" =>
               calls.model_step = cfg.num_training_steps_per_epoch
        /\ cfg.loss_scaler = "none" =>
               calls.optimizer_step = cfg.num_training_steps_per_epoch

\* C1 (amended): over a data source of N*U batches optimizer.step() is invoked exactly
\* N times when loss_scaler == 'none', once per accumulation window; when loss_scaler
\* is None model.step() is invoked once per raw batch, N*U times, and optimizer.step()
\* is never invoked by the loop.
C1_StepsPerWindow ==
    EpochOverExactData =>
        /\ cfg.loss_scaler = "none" =>
               calls.optimizer_step = cfg.num_training_steps_per_epoch
        /\ cfg.loss_scaler = "None" =>
               /\ calls.model_step = cfg.num_training_steps_per_epoch * cfg.update_freq
               /\ calls.optimizer_step = 0

C1_Witness ==
    /\ EpochOverExactData
    /\ cfg.loss_scaler = "None"
    /\ cfg.update_freq > 1
    /\ cfg.num_training_steps_per_epoch > 1
    /\ calls.model_step = cfg.num_training_steps_per_epoch * cfg.update_freq

\* C2: with a learning-rate schedule configured, after every non-skipped batch b each
\* parameter group's lr is lr_schedule_values[it] times its lr_scale if it has one,
\* lr_schedule_values[it] otherwise, with it = start_steps + (b // update_freq).
C2_LrFollowsSchedule ==
    (tpc \in {"loop", "done"} /\ cfg.lr_schedule /\ data_iter_step \in worked) =>
        LET it == cfg.start_steps + (data_iter_step \div cfg.update_freq) IN
        \A i \in DOMAIN param_groups :
            param_groups[i].lr =
                IF "lr_scale" \in DOMAIN param_groups[i]
                THEN lr_schedule_values[it] * param_groups[i].lr_scale
                ELSE lr_schedule_values[it]

C2_Witness ==
    /\ cfg.lr_schedule
    /\ cfg.start_steps > 0
    /\ data_iter_step \in worked
    /\ data_iter_step \div cfg.update_freq > 0
    /\ data_iter_step % cfg.update_freq # 0
    /\ param_groups[2].lr = lr_schedule_values[cfg.start_steps + 1] * 2

\* C8: lr and weight_decay are assigned only on batches with
\* batch_index % update_freq == 0; on every other batch no parameter group's lr or
\* weight_decay is written, whichever schedules are configured.
C8_WritesOnlyAtWindowStart ==
    (tpc \in {"loop", "done"} /\ data_iter_step >= 0
        /\ data_iter_step % cfg.update_freq # 0) =>
        (~written.lr /\ ~written.weight_decay)

\* C9: a batch whose step (batch_index // update_freq) is at least
\* num_training_steps_per_epoch changes neither the parameter groups, nor gradients,
\* weights and EMA model (no collaborator is called), nor the statistics accumulator,
\* nor the logging sink's step counter; the batches that do work are exactly those
\* with index below num_training_steps_per_epoch * update_freq.
C9_SkippedBatchIsNoOp ==
    /\ [][(data_iter_step' = data_iter_step + 1
            /\ (data_iter_step' \div cfg.update_freq) >= cfg.num_training_steps_per_epoch)
          => UNCHANGED <<param_groups, calls, grads, meters, log_step>>]_vars
    /\ [](worked = {b \in 0..data_iter_step :
                      b < cfg.num_training_steps_per_epoch * cfg.update_freq})

C9_Witness ==
    /\ tpc = "loop"
    /\ cfg.update_freq > 1
    /\ data_iter_step > cfg.num_training_steps_per_epoch * cfg.update_freq
    /\ data_iter_step \notin worked
    /\ meters.updates = cfg.num_training_steps_per_epoch * cfg.update_freq
    /\ cfg.log_writer /\ log_step = meters.updates


(***************************************************************************)
(*                          Properties of merge                            *)
(***************************************************************************)

\* A position <<x, n>> is line n of worker file x; line 1 is the header.
AllPositions ==
    UNION {{<<fx, ln>> : ln \in 2..Len(files[fx + 1])} : fx \in 0..(Len(files) - 1)}
ReadPositions ==
    {p \in AllPositions : p[1] < x \/ (p[1] = x /\ p[2] <= lineno)}
RecordAt(p) == files[p[1] + 1][p[2]]
Before(p, q) == p[1] < q[1] \/ (p[1] = q[1] /\ p[2] < q[2])
\* same identifier, same chunk index and same split index
SamePair(p, q) ==
    /\ RecordAt(p)[1] = RecordAt(q)[1]
    /\ RecordAt(p)[4] = RecordAt(q)[4]
    /\ RecordAt(p)[5] = RecordAt(q)[5]
IsFirstOccurrence(p) == ~\E q \in AllPositions : Before(q, p) /\ SamePair(q, p)
ReadOf(name) == {p \in ReadPositions : RecordAt(p)[1] = name}
LastOf(P) == CHOOSE p \in P : \A q \in P : q = p \/ Before(q, p)

RetainedAreFirstOccurrences ==
    \A name \in DOMAIN dict_feats :
        /\ Len(origin[name]) = Len(dict_feats[name])
        /\ \A j \in DOMAIN origin[name] :
              LET p == origin[name][j] IN
              /\ p \in ReadOf(name)
              /\ dict_feats[name][j] = PyFloat(RecordAt(p)[2])
              /\ IsFirstOccurrence(p)
              /\ \A k \in DOMAIN origin[name] : k # j => ~SamePair(p, origin[name][k])

\* C3: for every identifier each (chunk-index, split-index) pair contributes at most
\* one retained prediction, the retained one is that of the pair's first occurrence in
\* reading order, and reading a later occurrence changes no per-identifier state.
C3_PairCountedOnce ==
    /\ []RetainedAreFirstOccurrences
    /\ [][(x' = x /\ lineno' = lineno + 1 /\ ~IsFirstOccurrence(<<x, lineno'>>))
          => UNCHANGED <<dict_keys, dict_feats, dict_label, dict_pos>>]_vars

C3_Witness ==
    /\ mpc = "done"
    /\ \E p \in ReadPositions, q \in ReadPositions :
          /\ q[1] < p[1]
          /\ SamePair(q, p)
          /\ RecordAt(q)[2] # RecordAt(p)[2]
          /\ dict_feats[RecordAt(p)[1]] = <<PyFloat(RecordAt(q)[2])>>

\* C4: merge over the files followed by a second copy of the same files returns the
\* score that merge over the files returned (nan both times when no record exists).
C4_ReadTwiceSameScore ==
    (run = 2 /\ mpc = "done") => final_loss = first_loss

C4_Witness ==
    /\ run = 2 /\ mpc = "done"
    /\ Len(dict_keys) = 2
    /\ final_loss = first_loss
    /\ final_loss # NaN
    /\ \E name \in DOMAIN dict_feats : Len(dict_feats[name]) = 2

\* (mean of the retained predictions - label) squared
SquaredError(data, label) ==
    LET diff == RatSub(RatMul(RatSum(data), <<1, Len(data)>>), label)
    IN RatMul(diff, diff)

\* the mean over the identifiers of SquaredError, from the dictionaries d
MeanSquaredError(d) ==
    IF d.keys = <<>> THEN NaN
    ELSE RatMul(RatSum([i \in DOMAIN d.keys |->
                          SquaredError(d.feats[d.keys[i]], d.label[d.keys[i]])]),
                <<1, Len(d.keys)>>)

\* two workers, each writing the header and the records of sample1 at (0,0) and (0,1)
ScenarioFiles(fmt) ==
    LET f == << HeaderLine,
                RecordIn(fmt, [id |-> "sample1", output |-> 9, target |-> 10,
                               chunk_nb |-> 0, split_nb |-> 0]),
                RecordIn(fmt, [id |-> "sample1", output |-> 7, target |-> 10,
                               chunk_nb |-> 0, split_nb |-> 1]) >>
    IN <<f, f>>

HasArrayPrediction(fs) ==
    \E k \in DOMAIN fs : \E n \in 2..Len(fs[k]) : Head(fs[k][n][2]) = "["

MergeEnded == mpc \in {"done", "ValueError"}

\* C5 (as stated): on worker files in the documented format, predictions in array
\* textual form such as [0.9], merge returns the mean over the identifiers of
\* (mean of retained predictions - label)^2, and 0.04 in the two-worker scenario.
C5_DocumentedFormatScore_AsClaimed ==
    (MergeEnded /\ HasArrayPrediction(files)) =>
        /\ mpc = "done"
        /\ final_loss = MeanSquaredError(Dicts)
        /\ files = ScenarioFiles("array") => final_loss = <<1, 25>>

\* C5 (amended): on worker files as final_test writes them, predictions as bare
\* decimals such as 0.9, merge returns the mean over the identifiers of (mean of
\* retained predictions - label)^2, and 0.04 = 1/25 in the two-worker scenario; on a
\* record whose prediction is in array textual form merge raises ValueError.
C5_WrittenFormatScore ==
    /\ mpc = "done" => final_loss = MeanSquaredError(Dicts)
    /\ (MergeEnded /\ files = ScenarioFiles("scalar")) =>
           (mpc = "done" /\ final_loss = <<1, 25>>)
    /\ (MergeEnded /\ HasArrayPrediction(files)) => mpc = "ValueError"

C5_Witness ==
    /\ mpc = "done"
    /\ files = ScenarioFiles("scalar")
    /\ dict_feats["sample1"] = << <<9, 10>>, <<7, 10>> >>
    /\ final_loss = <<1, 25>>

\* the dictionaries after all lines of all files, read in order from line ln of file fx
RECURSIVE AbsorbAll(_, _, _)
AbsorbAll(d, fx, ln) ==
    IF fx >= Len(files) \/ d.raised THEN d
    ELSE IF ln > Len(files[fx + 1]) THEN AbsorbAll(d, fx + 1, 2)
    ELSE AbsorbAll(Absorb(d, files[fx + 1][ln], <<fx, ln>>), fx, ln + 1)

\* C6: the score merge returns is the same under every order in which the pool
\* completes the per-identifier units: each completed unit's result depends on its
\* own input alone, and the returned score is the function of the file contents.
C6_ScoreIndependentOfPoolOrder ==
    /\ mpc \in {"pool", "done"} =>
          \A i \in DOMAIN ans :
              ans[i] # Pending =>
                  ans[i] = <<SquaredError(input_lst[i][3], input_lst[i][4])>>
    /\ mpc = "done" => final_loss = MeanSquaredError(AbsorbAll(NoDicts, 0, 2))

C6_Witness ==
    /\ mpc = "pool"
    /\ Len(ans) = 2
    /\ ans[1] = Pending
    /\ ans[2] # Pending
    /\ input_lst[1][3] # input_lst[2][3]

\* C7 (as stated): the label of an identifier is the label of the most recently read
\* record of that identifier, records with an already seen key included.
C7_LabelOfLastRead_AsClaimed ==
    mpc \in {"read", "pool", "done"} =>
        \A name \in DOMAIN dict_label :
            dict_label[name] = PyFloat(RecordAt(LastOf(ReadOf(name)))[3])

\* C7 (amended): the label of an identifier is the label of the most recently
\* retained record of that identifier; a record discarded for its already seen key
\* leaves the label as it was.
C7_LabelOfLastRetained ==
    mpc \in {"read", "pool", "done"} =>
        \A name \in DOMAIN dict_label :
            dict_label[name] = PyFloat(RecordAt(origin[name][Len(origin[name])])[3])

C7_Witness ==
    /\ mpc = "done"
    /\ \E name \in DOMAIN dict_label :
          /\ LastOf(ReadOf(name)) \notin Range(origin[name])
          /\ PyFloat(RecordAt(LastOf(ReadOf(name)))[3]) # dict_label[name]

\* C10: a record read whose (chunk-index, split-index) pair differs from every pair
\* retained for its identifier is itself retained: its prediction is in the list.
C10_DistinctPairsKept ==
    mpc \in {"read", "pool", "done"} =>
        \A p \in ReadPositions :
            LET name == RecordAt(p)[1] IN
            (\A q \in Range(origin[name]) : q = p \/ ~SamePair(q, p))
                => p \in Range(origin[name])

====
